---- MODULE Spec2Model ----
(***************************************************************************)
(* bigflow/build/pip.py: compiling, checking and reading requirements      *)
(* files, and the incremental discovery of pins (generate_pinfile).        *)
(*                                                                         *)
(* Text is a sequence of tokens.  A token is one character of the syntax   *)
(* the code looks at (newline, space, '#', the '-r' keyword) or an opaque  *)
(* word (a specifier, a path component, a piece of comment).  A file is    *)
(* <<>> when it does not exist and <<content>> when it does.               *)
(***************************************************************************)
EXTENDS Integers, Sequences, FiniteSets, TLC

\* ------------------------------------------------------------------ bounds
MaxPins == 2          \* longest candidate list resolve_pins() returns
MaxOps == 2           \* calls that write (pip_compile, generate_pinfile, an edit)
MaxDepth == 4         \* nested calls the interpreter allows (sys.getrecursionlimit())

\* ------------------------------------------------------------------ tokens
NL == "\n"
CRLF == "\r\n"
SP == " "
HASH == "#"
DASH_R == "-r"
PinsName == "pins.in"
SubDir == "sub/"
UpDir == "../"

IsSpace(t) == t \in {NL, SP}

\* first index k >= p of s with s[k] \in T, Len(s)+1 when there is none
RECURSIVE IndexFrom(_, _, _)
IndexFrom(s, p, T) ==
    IF p > Len(s) \/ s[p] \in T THEN p ELSE IndexFrom(s, p + 1, T)

\* first index k >= p of s with s[k] not whitespace, Len(s)+1 when there is none
RECURSIVE NonSpaceFrom(_, _)
NonSpaceFrom(s, p) ==
    IF p > Len(s) \/ ~IsSpace(s[p]) THEN p ELSE NonSpaceFrom(s, p + 1)

\* last index k <= p of s with s[k] not whitespace, 0 when there is none
RECURSIVE NonSpaceBefore(_, _)
NonSpaceBefore(s, p) ==
    IF p < 1 \/ ~IsSpace(s[p]) THEN p ELSE NonSpaceBefore(s, p - 1)

\* str.strip()
Strip(s) == SubSeq(s, NonSpaceFrom(s, 1), NonSpaceBefore(s, Len(s)))

\* s.split("#", 1)[0]
BeforeHash(s) == SubSeq(s, 1, IndexFrom(s, 1, {HASH}) - 1)

\* s.split("\n"); iterating a text file gives the same lines up to the
\* line ends, which every caller strips
RECURSIVE SplitLines(_)
SplitLines(s) ==
    LET e == IndexFrom(s, 1, {NL})
    IN  IF e > Len(s) THEN <<s>>
        ELSE <<SubSeq(s, 1, e - 1)>> \o SplitLines(SubSeq(s, e + 1, Len(s)))

\* "\n".join(lines)
RECURSIVE JoinLines(_)
JoinLines(ls) ==
    IF ls = <<>> THEN <<>>
    ELSE IF Len(ls) = 1 THEN ls[1]
    ELSE ls[1] \o <<NL>> \o JoinLines(Tail(ls))


\* ------------------------------------------------------------------- files
Absent == <<>>
File(c) == <<c>>
Exists(f) == f # Absent
Text(f) == f[1]
\* Path.read_text(), open() for reading: the text of the file, every line
\* end given as '\n' (universal newlines)
read_text(f) == [k \in 1..Len(Text(f)) |-> IF Text(f)[k] = CRLF THEN NL ELSE Text(f)[k]]
\* Path.write_text(text): the file written, '\n' as the line end (os.linesep
\* of a POSIX system)
write_text(text) == File(text)

\* where the pins file lies, seen from the directory of the main source
PinsLocs == {"same", "sub", "outside"}

\* the path of the pins file as a directive of the main source spells it
PinsPath(loc) ==
    CASE loc = "same" -> <<PinsName>>
      [] loc = "sub" -> <<SubDir, PinsName>>
      [] loc = "outside" -> <<UpDir, PinsName>>

\* The files the model knows, and the path of each from the directory of
\* the main file.  A path stands for the file of that stem with the suffix
\* of the file that refers to it (.in among sources, .txt among lock files).
FileNames == {"main", "pins", "a", "b", "c", "d", "e", "MANIFEST"}
FilePath(loc, n) ==
    CASE n = "main" -> <<"main">>
      [] n = "pins" -> PinsPath(loc)
      [] n = "a" -> <<"a">>
      [] n = "b" -> <<SubDir, "b">>
      [] n = "c" -> <<SubDir, "c">>
      [] n = "d" -> <<"c">>
      [] n = "e" -> <<"a", ".bak">>
      [] n = "MANIFEST" -> <<"MANIFEST">>
Parent(loc, n) == SubSeq(FilePath(loc, n), 1, Len(FilePath(loc, n)) - 1)

\* faulty variant: every path is taken from the directory of the main file
ResolvePath_FromMainDir(loc, name, fn) ==
    IF \E n \in FileNames : FilePath(loc, n) = fn
    THEN CHOOSE n \in FileNames : FilePath(loc, n) = fn
    ELSE "?"

\* requirements_in.parent / fn, for a directive in the file `name`: the name
\* of the file it denotes, "?" when there is no such file
ResolvePath(loc, name, fn) ==
    LET hit == {n \in FileNames : FilePath(loc, n) = Parent(loc, name) \o fn}
    IN  IF hit = {} THEN "?" ELSE CHOOSE n \in hit : TRUE

\* ----------------------------------------------------------------- hashing
\* re.findall(r"\s*-r\s+(.*)", c) from position p on: the captured rests of
\* line, left to right.  '-r' matches wherever whitespace follows it; \s+ runs
\* over spaces and newlines alike; (.*) stops at the next newline.
RECURSIVE FindIncludes(_, _)
FindIncludes(c, p) ==
    LET q == IndexFrom(c, p, {DASH_R})
    IN  IF q >= Len(c) THEN <<>>
        ELSE IF ~IsSpace(c[q + 1]) THEN FindIncludes(c, q + 1)
        ELSE LET r == NonSpaceFrom(c, q + 1)
                 e == IndexFrom(c, r, {NL})
             IN  <<SubSeq(c, r, e - 1)>> \o FindIncludes(c, e)

\* include.split("#", 1)[0].strip()
IncludeFileName(include) == Strip(BeforeHash(include))

\* the marks an operator leaves in its result where the code raises: the
\* file is not there (FileNotFoundError), or the calls are nested deeper than
\* the interpreter allows (RecursionError).  What follows the first mark is
\* never looked at.
Raised == "!FileNotFoundError"
Overflow == "!RecursionError"
Marks == {Raised, Overflow}
Ok(data) == \A k \in 1..Len(data) : data[k] \notin Marks
\* the exception of the first mark, "none" without a mark
FirstMark(data) ==
    LET k == IndexFrom(data, 1, Marks)
    IN  IF k > Len(data) THEN "none"
        ELSE IF data[k] = Raised THEN "FileNotFoundError" ELSE "RecursionError"

\* the generator _collect_all_input_files_content run to its end, at the
\* nesting depth d: the contents yielded, concatenated in the order the hash
\* accumulator receives them, with a mark where an exception is raised
RECURSIVE CollectIncludes(_, _, _, _, _, _)
RECURSIVE CollectContent(_, _, _, _)
CollectContent(fs, loc, name, d) ==
    IF d > MaxDepth THEN <<Overflow>>
    ELSE IF name \notin DOMAIN fs \/ ~Exists(fs[name]) THEN <<Raised>>
    ELSE read_text(fs[name])
         \o CollectIncludes(fs, loc, name, FindIncludes(read_text(fs[name]), 1), 1, d)
CollectIncludes(fs, loc, name, incs, k, d) ==
    IF k > Len(incs) THEN <<>>
    ELSE CollectContent(fs, loc, ResolvePath(loc, name, IncludeFileName(incs[k])), d + 1)
         \o CollectIncludes(fs, loc, name, incs, k + 1, d)

\* faulty variant: only the file itself is hashed, not what it includes
_collect_all_input_files_content_NoIncludes(fs, loc, name) ==
    IF Exists(fs[name]) THEN [ok |-> TRUE, data |-> read_text(fs[name]), exc |-> "none"]
    ELSE [ok |-> FALSE, data |-> <<>>, exc |-> "FileNotFoundError"]

\* _collect_all_input_files_content
_collect_all_input_files_content(fs, loc, name) ==
    LET data == CollectContent(fs, loc, name, 1)
    IN  IF Ok(data) THEN [ok |-> TRUE, data |-> data, exc |-> "none"]
        ELSE [ok |-> FALSE, data |-> <<>>, exc |-> FirstMark(data)]

\* the digest of the bytes fed to the accumulator: SHA-256 taken as
\* collision free, so the digest stands for the bytes themselves
Sha256(data) == <<"sha256:">> \o data

\* compute_requirements_in_hash
compute_requirements_in_hash(fs, loc, name) ==
    LET r == _collect_all_input_files_content(fs, loc, name)
    IN  [ok |-> r.ok, hash |-> IF r.ok THEN Sha256(r.data) ELSE <<>>, exc |-> r.exc]

\* ------------------------------------------------------------- lock files
\* A resolved lock file: the fingerprints that occur anywhere in its text,
\* and the resolver's output below the header.
LockFile(hashes, specs) == [hashes |-> hashes, specs |-> specs]

\* hash1 in requirements_txt_content
HashInText(hash1, txt) == hash1 \in txt.hashes

\* faulty variant: the lock file is looked for before the source
check_requirements_needs_recompile_TxtFirst(fs, lk, loc, name) ==
    IF ~Exists(lk[name]) THEN "True"
    ELSE IF ~Exists(fs[name]) THEN "False"
    ELSE IF HashInText(Sha256(CollectContent(fs, loc, name, 1)), Text(lk[name])) THEN "False"
    ELSE "True"

\* check_requirements_needs_recompile: "True", "False", or the exception
check_requirements_needs_recompile(fs, lk, loc, name) ==
    IF ~Exists(fs[name]) THEN "False"
    ELSE IF ~Exists(lk[name]) THEN "True"
    ELSE LET hash1 == compute_requirements_in_hash(fs, loc, name)
         IN  IF ~hash1.ok THEN hash1.exc
             ELSE IF HashInText(hash1.hash, Text(lk[name])) THEN "False"
             ELSE "True"

\* ---------------------------------------------------------------- reading
\* line.replace("-r ", "")
RECURSIVE RemoveDashR(_)
RemoveDashR(line) ==
    IF Len(line) < 2 THEN line
    ELSE IF line[1] = DASH_R /\ line[2] = SP
         THEN RemoveDashR(SubSeq(line, 3, Len(line)))
         ELSE <<line[1]>> \o RemoveDashR(Tail(line))

\* the loop of read_requirements, lines 158-169, at the nesting depth d: the
\* specifiers in file order, includes expanded in place, with a mark (as a
\* line) where an exception is raised
RaisedLine == <<Raised>>
OverflowLine == <<Overflow>>
RECURSIVE ReadFileLines(_, _, _, _, _, _)
RECURSIVE ReadFile(_, _, _, _)
ReadFile(fs, loc, name, d) ==
    IF d > MaxDepth THEN <<OverflowLine>>
    ELSE IF name \notin DOMAIN fs \/ ~Exists(fs[name]) THEN <<RaisedLine>>
    ELSE ReadFileLines(fs, loc, name, SplitLines(read_text(fs[name])), 1, d)
ReadFileLines(fs, loc, name, lines, k, d) ==
    IF k > Len(lines) THEN <<>>
    ELSE LET line == Strip(BeforeHash(lines[k]))
         IN  (IF Len(line) >= 2 /\ line[1] = DASH_R /\ line[2] = SP
              THEN ReadFile(fs, loc, ResolvePath(loc, name, RemoveDashR(line)), d + 1)
              ELSE IF line = <<>> THEN <<>> ELSE <<line>>)
             \o ReadFileLines(fs, loc, name, lines, k + 1, d)

\* read_requirements(name, recompile_check=False) on the files fs
read_requirements_lines(fs, loc, name) ==
    LET data == ReadFile(fs, loc, name, 1)
        k == IndexFrom(data, 1, {RaisedLine, OverflowLine})
    IN  IF k > Len(data) THEN [exc |-> "none", data |-> data]
        ELSE [exc |-> IF data[k] = RaisedLine THEN "FileNotFoundError"
                      ELSE "RecursionError",
              data |-> <<>>]

\* the lines of a lock file: the header pip_compile writes above a
\* fingerprint (lines 66-73, all comments but the last, which is empty), then
\* the body
LockHeader ==
    << <<HASH, SP, "*** autogenerated: don't edit ***">>,
       <<HASH, SP, "$source-hash:", SP, "sha256">>,
       <<HASH, SP, "$source-file:", SP, "requirements.in">>,
       <<HASH>>,
       <<HASH, SP, "run 'bigflow build-requirements' to update this file">>,
       <<>> >>
LockLines(txt) == (IF txt.hashes = {} THEN <<>> ELSE LockHeader) \o txt.specs
\* the lock files as the texts open() reads
TxtFiles(lk) ==
    [n \in DOMAIN lk |->
        IF Exists(lk[n]) THEN File(JoinLines(LockLines(Text(lk[n])))) ELSE Absent]

\* faulty variant: the freshness check is made on the included files too
read_requirements_ChecksIncludes(fs, lk, loc, name, recompile_check) ==
    LET txts == TxtFiles(lk)
        lines == IF Exists(txts[name]) THEN SplitLines(Text(txts[name])) ELSE <<>>
        included == {ResolvePath(loc, name, RemoveDashR(Strip(BeforeHash(lines[k])))) :
                        k \in 1..Len(lines)}
    IN  IF /\ recompile_check
           /\ \E n \in ({name} \cup included) \cap DOMAIN lk :
                  check_requirements_needs_recompile(fs, lk, loc, n) = "True"
        THEN [exc |-> "ValueError", data |-> <<>>]
        ELSE read_requirements_lines(txts, loc, name)

\* read_requirements(name.txt, recompile_check): the exception raised ("none"
\* when it returns) and the list returned
read_requirements(fs, lk, loc, name, recompile_check) ==
    LET stale == IF recompile_check
                 THEN check_requirements_needs_recompile(fs, lk, loc, name)
                 ELSE "False"
    IN  IF stale = "True" THEN [exc |-> "ValueError", data |-> <<>>]
        ELSE IF stale # "False" THEN [exc |-> stale, data |-> <<>>]
        ELSE read_requirements_lines(TxtFiles(lk), loc, name)

\* --------------------------------------------------------------- compiling
\* The external resolver (run_process, lines 44-56) can succeed only on
\* input it can read: the source and every file it includes exist.
ResolverCanSucceed(fs, loc, name) == read_requirements_lines(fs, loc, name).exc = "none"

\* What a successful resolver run writes (the temporary file read back at
\* line 58): the constraints in force, pinned.
ResolverOutput(fs, loc, name) == read_requirements_lines(fs, loc, name).data

\* bigflow.commons.run_process(..., check=True): returns when the process
\* exits with 0, raises subprocess.CalledProcessError otherwise
run_process(exit_ok) == IF exit_ok THEN "none" ELSE "CalledProcessError"

\* pip_compile(name, dry_run=..., rebuild=...), `ok` being what the resolver
\* would answer on readable input: the lock files afterwards, the temporary
\* files left on disk, whether the resolver exited with 0, and the exception
\* raised ("none" when pip_compile returns).  NamedTemporaryFile is opened
\* with delete=False and the file is never unlinked.
Outcome(lk, ntmp, resolved, exc) ==
    [lock |-> lk, tmp |-> ntmp, resolved |-> resolved, exc |-> exc]

\* faulty variant: the header is written before the resolver has run
pip_compile_HeaderFirst(fs, lk, loc, ntmp, name, dry_run, rebuild, ok) ==
    IF run_process(ok /\ ResolverCanSucceed(fs, loc, name)) # "none"
    THEN Outcome(IF dry_run THEN lk ELSE [lk EXCEPT ![name] = File(LockFile({}, <<>>))],
                 ntmp + 1, FALSE, "CalledProcessError")
    ELSE IF dry_run
    THEN Outcome(lk, ntmp + 1, TRUE, "none")
    ELSE Outcome([lk EXCEPT ![name] =
                     File(LockFile({compute_requirements_in_hash(fs, loc, name).hash},
                                   ResolverOutput(fs, loc, name)))],
                 ntmp + 1, TRUE, "none")

\* faulty variant: the early return of line 60 is missing
pip_compile_DryRunWrites(fs, lk, loc, ntmp, name, dry_run, rebuild, ok) ==
    IF run_process(ok /\ ResolverCanSucceed(fs, loc, name)) # "none"
    THEN Outcome(lk, ntmp + 1, FALSE, "CalledProcessError")
    ELSE Outcome([lk EXCEPT ![name] =
                     File(LockFile({compute_requirements_in_hash(fs, loc, name).hash},
                                   ResolverOutput(fs, loc, name)))],
                 ntmp + 1, TRUE, "none")

pip_compile(fs, lk, loc, ntmp, name, dry_run, rebuild, ok) ==
    IF run_process(ok /\ ResolverCanSucceed(fs, loc, name)) # "none"
    THEN Outcome(lk, ntmp + 1, FALSE, "CalledProcessError")
    ELSE IF dry_run
    THEN Outcome(lk, ntmp + 1, TRUE, "none")
    ELSE LET source_hash == compute_requirements_in_hash(fs, loc, name)
         IN  IF ~source_hash.ok
             THEN Outcome(lk, ntmp + 1, TRUE, source_hash.exc)
             ELSE Outcome([lk EXCEPT ![name] =
                              File(LockFile({source_hash.hash},
                                            ResolverOutput(fs, loc, name)))],
                          ntmp + 1, TRUE, "none")

\* requirements_dir.glob("*.in"): the files of the directory named *.in (the
\* file "e", a.in.bak, is not), as a list in the order the directory gives
InFiles(fs, loc, dir) ==
    {n \in (DOMAIN fs) \ {"e"} : Exists(fs[n]) /\ Parent(loc, n) = dir}
Listings(S) ==
    {q \in [1..Cardinality(S) -> S] : \A j, k \in 1..Cardinality(S) : q[j] = q[k] => j = k}

\* faulty variant: MANIFEST.in stays in the list
detect_piptools_source_files_KeepsManifest(in_files, loc, dir) == in_files

detect_piptools_source_files(in_files, loc, dir) ==
    SelectSeq(in_files, LAMBDA n : FilePath(loc, n) # dir \o <<"MANIFEST">>)

\* lines 91-93: the checks of the other *.in files, up to the first that raises
RECURSIVE CheckSiblings(_, _, _, _, _, _)
CheckSiblings(fs, lk, loc, name, fins, k) ==
    IF k > Len(fins) THEN [exc |-> "none", checked |-> <<>>]
    ELSE IF fins[k] = name THEN CheckSiblings(fs, lk, loc, name, fins, k + 1)
    ELSE LET stale == check_requirements_needs_recompile(fs, lk, loc, fins[k])
             rest == CheckSiblings(fs, lk, loc, name, fins, k + 1)
         IN  IF stale \notin {"True", "False"}
             THEN [exc |-> stale, checked |-> <<fins[k]>>]
             ELSE [exc |-> rest.exc, checked |-> <<fins[k]>> \o rest.checked]

\* maybe_recompile_requirements_file(name.txt), the directory listing name's
\* directory as in_files: what it leaves and returns, which files it has
\* checked on the way, and whether it has called pip_compile
maybe_recompile_requirements_file(fs, lk, loc, ntmp, name, in_files, ok) ==
    LET fins == detect_piptools_source_files(in_files, loc, Parent(loc, name))
        sib == CheckSiblings(fs, lk, loc, name, fins, 1)
        stale == check_requirements_needs_recompile(fs, lk, loc, name)
    IN  IF sib.exc # "none"
        THEN [lock |-> lk, tmp |-> ntmp, exc |-> sib.exc, result |-> "none",
              checked |-> sib.checked, compiled |-> FALSE]
        ELSE IF stale \notin {"True", "False"}
        THEN [lock |-> lk, tmp |-> ntmp, exc |-> stale, result |-> "none",
              checked |-> sib.checked, compiled |-> FALSE]
        ELSE IF stale = "True"
        THEN LET r == pip_compile(fs, lk, loc, ntmp, name, FALSE, FALSE, ok)
             IN  [lock |-> r.lock, tmp |-> r.tmp, exc |-> r.exc,
                  result |-> IF r.exc = "none" THEN "True" ELSE "none",
                  checked |-> sib.checked, compiled |-> TRUE]
        ELSE [lock |-> lk, tmp |-> ntmp, exc |-> "none", result |-> "False",
              checked |-> sib.checked, compiled |-> FALSE]

\* ------------------------------------------------------------ pins file
Cleaned == <<HASH, SP, "autocleaned ...">>
PartialBanner == <<HASH, SP, "*** autogenerated - partial! ***">>
FinalBanner == <<HASH, SP, "*** autogenerated ***">>
Ellipsis == <<HASH, SP, "...">>

\* faulty variant: the rejected pin is recorded without the leading '##'
ConflictLine_NotCommented(pin) == <<pin, SP, SP, HASH, SP, "CONFLICT">>
\* f"## {pin}  # CONFLICT"
ConflictLine(pin) == <<HASH, HASH, SP, pin, SP, SP, HASH, SP, "CONFLICT">>
\* the line an accepted pin is kept as
PinLine(pin) == <<pin>>

AsPinLines(ps) == [k \in 1..Len(ps) |-> PinLine(ps[k])]

\* the text written at lines 216-221
PartialPinsText(allp, pin) ==
    JoinLines(<<PartialBanner>> \o allp \o <<PinLine(pin), Ellipsis>>)
\* the text written at lines 193-196
FinalPinsText(allp) == JoinLines(<<FinalBanner>> \o allp)

\* what the caller's resolve_pins may return: specifiers, in sorted order
Candidates == <<"pkgA==2.0", "pkgB==9.9.9">>
CandidateSet == {Candidates[k] : k \in 1..Len(Candidates)}
PinLists == UNION {[1..n -> CandidateSet] : n \in 0..MaxPins}
PinRank(p) == CHOOSE k \in 1..Len(Candidates) : Candidates[k] = p

\* faulty variant: the report lists the rejected pins in the order they were tested
sorted_NotSorted(s) == s
\* sorted(bad_pins)
RECURSIVE Insert(_, _)
Insert(x, s) ==
    IF s = <<>> THEN <<x>>
    ELSE IF PinRank(x) <= PinRank(s[1]) THEN <<x>> \o s
    ELSE <<s[1]>> \o Insert(x, Tail(s))
RECURSIVE sorted(_)
sorted(s) == IF s = <<>> THEN <<>> ELSE Insert(s[1], sorted(Tail(s)))

\* re.search(rf"\s+-r\s+{re.escape(pins_file_in.name)}\s*#.*$", req): no
\* MULTILINE flag, so '$' is the end of the text (or just before a final
\* newline) and '.' stops at a newline
PinsDirectiveFound(req) ==
    \E q \in 2..(Len(req) - 1) :
        /\ req[q] = DASH_R
        /\ IsSpace(req[q - 1])
        /\ IsSpace(req[q + 1])
        /\ LET n == NonSpaceFrom(req, q + 1)
           IN  /\ n <= Len(req)
               /\ req[n] = PinsName
               /\ LET k == NonSpaceFrom(req, n + 1)
                  IN  /\ k <= Len(req)
                      /\ req[k] = HASH
                      /\ \A m \in (k + 1)..Len(req) : req[m] = NL => m = Len(req)

\* the line appended at line 243
AddedDirective(loc) ==
    <<NL, DASH_R, SP>> \o PinsPath(loc) \o <<SP, HASH, SP, SP, "added by bigflow">>

\* faulty variant: a directive that is found is taken out of the source
_include_pinsfile_into_requirements_DropsFound(req, loc) ==
    IF PinsDirectiveFound(req)
    THEN LET q == CHOOSE k \in 1..Len(req) :
                      req[k] = DASH_R /\ \A m \in (k + 1)..Len(req) : req[m] # DASH_R
         IN  [text |-> SubSeq(req, 1, q - 2), exc |-> "none"]
    ELSE IF loc = "outside" THEN [text |-> req, exc |-> "ValueError"]
    ELSE [text |-> req \o AddedDirective(loc), exc |-> "none"]

\* _include_pinsfile_into_requirements: the main source afterwards and the
\* exception raised; relative_to raises ValueError for a pins file that is
\* not below the directory of the main source
_include_pinsfile_into_requirements(req, loc) ==
    IF PinsDirectiveFound(req) THEN [text |-> req, exc |-> "none"]
    ELSE IF loc = "outside" THEN [text |-> req, exc |-> "ValueError"]
    ELSE [text |-> req \o AddedDirective(loc), exc |-> "none"]

\* =================================================================== state
VARIABLES
    src,        \* the constraints sources: "main" (main.in) and "pins" (the pins file)
    lock,       \* the resolved lock files: "main" (main.txt)
    pinsLoc,    \* where the pins file lies
    tmp,        \* how many temporary output files are on disk
    pc,         \* where generate_pinfile stands; "idle" when it is not running
    current_requirements_txt,   \* generate_pinfile: the text captured at line 182
    pins,       \* generate_pinfile: what resolve_pins returned
    i,          \* _try_incrementally_add_pins: candidates decided so far
    all_pins,   \* _try_incrementally_add_pins: the lines decided so far
    bad_pins,   \* _try_incrementally_add_pins: the rejected candidates
    errors,     \* the rejected-pins report of lines 202-203: <<>> or <<list>>
    outcomes,   \* history: the resolver's exit status at each dry run of this run
    ev,         \* history: what the last step did
    resolve_pins,   \* the caller's callback: <<>> before its first call, then
                    \* <<the list it returns>>
    ops,        \* writing calls made so far
    resolver,   \* the package index behind pip-compile: <<>> when its answers
                \* may drift from call to call, else <<answers>>, the answers
                \* it has given so far, one per set of constraints in force
    prev,       \* history, kept against an index without drift: <<the result
                \* of the run of generate_pinfile that completed last>> while
                \* the files are as it left them
    trace       \* history: the steps of the current run of generate_pinfile

files == <<src, lock, pinsLoc, tmp>>
locals == <<current_requirements_txt, pins, i, all_pins, bad_pins, errors, outcomes>>
counters == <<resolve_pins, ops>>
vars == <<src, lock, pinsLoc, tmp, pc, current_requirements_txt, pins, i, all_pins,
          bad_pins, errors, outcomes, ev, resolve_pins, ops, resolver, prev, trace>>

Ev(op, dry_run, rebuild, resolved, exc, result) ==
    [op |-> op, dry_run |-> dry_run, rebuild |-> rebuild, resolved |-> resolved,
     exc |-> exc, result |-> result]

\* the constraints in force when pip-compile is run on main.in
ActiveSet(fs, loc) ==
    LET data == read_requirements_lines(fs, loc, "main").data
    IN  {data[k] : k \in 1..Len(data)}

\* pip-compile answers `ok` on the sources as they are.  An index without
\* drift answers the same set of constraints the same way every time.
Resolve(ok) ==
    IF resolver = <<>> \/ ~ResolverCanSucceed(src, pinsLoc, "main")
    THEN resolver' = resolver
    ELSE /\ \A a \in resolver[1] : a[1] = ActiveSet(src, pinsLoc) => a[2] = ok
         /\ resolver' = <<resolver[1] \cup {<<ActiveSet(src, pinsLoc), ok>>}>>

\* the name a call of pip_compile has in the trace
CompileStep(dry_run, rebuild) ==
    IF dry_run THEN "dry_run" ELSE IF rebuild THEN "rebuild" ELSE "compile"

\* the texts a main source is written with by hand: no directive; a
\* directive with a comment on the last line, with and without a final
\* newline; one without a comment; one on the first line; one followed by
\* further lines
Directive(loc) == <<DASH_R, SP>> \o PinsPath(loc)
MainTexts(loc) ==
    { <<"foo">>,
      <<"foo", NL>> \o Directive(loc) \o <<SP, HASH, "c">>,
      <<"foo", NL>> \o Directive(loc) \o <<SP, HASH, "c", NL>>,
      <<"foo", NL>> \o Directive(loc),
      Directive(loc) \o <<SP, HASH, "c">>,
      <<"foo", NL>> \o Directive(loc) \o <<SP, HASH, "c", NL, "bar">> }
\* the texts the main source is edited to by hand
EditTexts(loc) ==
    { <<"bar">>, <<"bar", NL>> \o Directive(loc) \o <<SP, HASH, "c">> }
\* the texts a pins file is left with or edited to by hand
PinsTexts == { <<HASH, SP, "old">>, <<"pkgC==1">> }
\* a lock file that was not written by pip_compile
LegacyLock == LockFile({}, <<<<"foo==0.1">>>>)

\* the value of a local that is not assigned yet
Unset == LockFile({}, <<>>)

NoLocals ==
    /\ current_requirements_txt = Unset
    /\ pins = <<>>
    /\ i = 0
    /\ all_pins = <<>>
    /\ bad_pins = <<>>
    /\ errors = <<>>
    /\ outcomes = <<>>

Files ==
    /\ pinsLoc \in PinsLocs
    /\ \E m \in {Absent} \cup {File(t) : t \in MainTexts(pinsLoc)} :
            src = [main |-> m, pins |-> Absent]
    /\ lock \in {[main |-> Absent], [main |-> File(LegacyLock)]}
    /\ tmp = 0
    /\ pc = "idle"
    /\ NoLocals
    /\ ev = Ev("init", FALSE, FALSE, FALSE, "none", "none")
    /\ resolve_pins = <<>>
    /\ ops = 0
    /\ prev = <<>>
    /\ trace = <<>>

\* the package index may answer the same constraints differently from call
\* to call
Init == Files /\ resolver = <<>>

\* ------------------------------------------------------ direct operations
\* pip_compile(main, dry_run=..., rebuild=...) called by the user
Compile(dry_run, rebuild, ok) ==
    /\ pc = "idle"
    /\ ops < MaxOps
    /\ \E r \in {pip_compile(src, lock, pinsLoc, tmp, "main", dry_run, rebuild, ok)} :
           /\ lock' = r.lock
           /\ tmp' = r.tmp
           /\ ev' = Ev("pip_compile", dry_run, rebuild, r.resolved, r.exc, "none")
    /\ Resolve(ok)
    /\ ops' = ops + 1
    /\ prev' = IF dry_run THEN prev ELSE <<>>
    /\ UNCHANGED <<src, pinsLoc, pc, locals, resolve_pins, trace>>

\* check_requirements_needs_recompile(main) called by the user
Check ==
    /\ pc = "idle"
    /\ ev' = Ev("check", FALSE, FALSE, FALSE, "none",
                check_requirements_needs_recompile(src, lock, pinsLoc, "main"))
    /\ UNCHANGED <<files, pc, locals, counters, resolver, prev, trace>>

\* read_requirements(name.txt, recompile_check=...) called by the user
ReadRequirements(name, recompile_check) ==
    /\ pc = "idle"
    /\ \E r \in {read_requirements(src, lock, pinsLoc, name, recompile_check)} :
           ev' = Ev("read", FALSE, FALSE, FALSE, r.exc,
                    [name |-> name, recompile_check |-> recompile_check, data |-> r.data])
    /\ UNCHANGED <<files, pc, locals, counters, resolver, prev, trace>>

\* the user rewrites a source file
Edit(name, text) ==
    /\ pc = "idle"
    /\ ops < MaxOps
    /\ src[name] # File(text)
    /\ src' = [src EXCEPT ![name] = File(text)]
    /\ ev' = Ev("edit", FALSE, FALSE, FALSE, "none", name)
    /\ ops' = ops + 1
    /\ prev' = <<>>
    /\ UNCHANGED <<lock, pinsLoc, tmp, pc, locals, resolve_pins, resolver, trace>>

\* ------------------------------------------------------- generate_pinfile
\* lines 180-182: clean the pins file, capture the lock file
GP_Clean ==
    /\ pc = "idle"
    /\ ops < MaxOps
    /\ ops' = ops + 1
    /\ src' = [src EXCEPT !["pins"] = File(Cleaned)]
    /\ IF Exists(lock["main"])
       THEN /\ current_requirements_txt' = Text(lock["main"])
            /\ pc' = "baseline"
            /\ ev' = Ev("clean", FALSE, FALSE, FALSE, "none", "none")
       ELSE /\ current_requirements_txt' = Unset
            /\ pc' = "raised"
            /\ ev' = Ev("clean", FALSE, FALSE, FALSE, "FileNotFoundError", "none")
    /\ trace' = <<"clean", "capture">>
    /\ UNCHANGED <<lock, pinsLoc, tmp, pins, i, all_pins, bad_pins, errors, outcomes,
                   resolve_pins, resolver, prev>>

\* line 183: the baseline rebuild
GP_Baseline(ok) ==
    /\ pc = "baseline"
    /\ \E r \in {pip_compile(src, lock, pinsLoc, tmp, "main", FALSE, TRUE, ok)} :
           /\ lock' = r.lock
           /\ tmp' = r.tmp
           /\ pc' = IF r.exc = "none" THEN "resolve" ELSE "raised"
           /\ ev' = Ev("pip_compile", FALSE, TRUE, r.resolved, r.exc, "baseline")
    /\ Resolve(ok)
    /\ trace' = Append(trace, CompileStep(FALSE, TRUE))
    /\ UNCHANGED <<src, pinsLoc, locals, counters, prev>>

\* faulty variant: line 187 is missing
GP_ResolvePins_NoRestore(ps) ==
    /\ pc = "resolve"
    /\ resolve_pins \in {<<>>, <<ps>>}
    /\ resolve_pins' = <<ps>>
    /\ pins' = ps
    /\ pc' = "include"
    /\ ev' = Ev("resolve_pins", FALSE, FALSE, FALSE, "none", "none")
    /\ trace' = trace \o <<"resolve_pins">>
    /\ UNCHANGED <<src, lock, pinsLoc, tmp, current_requirements_txt, i, all_pins,
                   bad_pins, errors, outcomes, ops, resolver, prev>>

\* lines 185-187: ask for the candidates, put the captured lock file back
GP_ResolvePins(ps) ==
    /\ pc = "resolve"
    /\ resolve_pins \in {<<>>, <<ps>>}
    /\ resolve_pins' = <<ps>>
    /\ pins' = ps
    /\ lock' = [lock EXCEPT !["main"] = File(current_requirements_txt)]
    /\ pc' = "include"
    /\ ev' = Ev("resolve_pins", FALSE, FALSE, FALSE, "none", "none")
    /\ trace' = trace \o <<"resolve_pins", "restore">>
    /\ UNCHANGED <<src, pinsLoc, tmp, current_requirements_txt, i, all_pins, bad_pins,
                   errors, outcomes, ops, resolver, prev>>

\* line 189, and lines 210-211
GP_Include ==
    /\ pc = "include"
    /\ \E r \in {_include_pinsfile_into_requirements(read_text(src["main"]), pinsLoc)} :
           /\ src' = IF r.text = read_text(src["main"]) THEN src
                     ELSE [src EXCEPT !["main"] = write_text(r.text)]
           /\ pc' = IF r.exc = "none" THEN "loop" ELSE "raised"
           /\ ev' = Ev("include", FALSE, FALSE, FALSE, r.exc, "none")
    /\ i' = 0
    /\ all_pins' = <<>>
    /\ bad_pins' = <<>>
    /\ trace' = Append(trace, "include")
    /\ UNCHANGED <<lock, pinsLoc, tmp, current_requirements_txt, pins, errors, outcomes,
                   counters, resolver, prev>>

\* lines 213-221: write the pins file with the next candidate added
GP_WritePartial ==
    /\ pc = "loop"
    /\ i < Len(pins)
    /\ src' = [src EXCEPT !["pins"] = File(PartialPinsText(all_pins, pins[i + 1]))]
    /\ pc' = "try"
    /\ ev' = Ev("write_partial", FALSE, FALSE, FALSE, "none", "none")
    /\ trace' = Append(trace, "write_partial")
    /\ UNCHANGED <<lock, pinsLoc, tmp, locals, counters, resolver, prev>>

\* faulty variant: the resolver's failure is not caught at line 224
GP_TryPin_Propagates(ok) ==
    /\ pc = "try"
    /\ \E r \in {pip_compile(src, lock, pinsLoc, tmp, "main", TRUE, FALSE, ok)},
          pin \in {pins[i + 1]} :
           /\ lock' = r.lock
           /\ tmp' = r.tmp
           /\ all_pins' = IF r.exc = "none" THEN Append(all_pins, PinLine(pin)) ELSE all_pins
           /\ outcomes' = Append(outcomes, r.exc = "none")
           /\ i' = IF r.exc = "none" THEN i + 1 ELSE i
           /\ pc' = IF r.exc = "none" THEN "loop" ELSE "raised"
           /\ ev' = Ev("pip_compile", TRUE, FALSE, r.resolved, r.exc, "try")
    /\ Resolve(ok)
    /\ trace' = Append(trace, CompileStep(TRUE, FALSE))
    /\ UNCHANGED <<src, pinsLoc, current_requirements_txt, pins, bad_pins, errors, counters,
                   prev>>

\* lines 222-230: the dry run that decides the candidate
GP_TryPin(ok) ==
    /\ pc = "try"
    /\ \E r \in {pip_compile(src, lock, pinsLoc, tmp, "main", TRUE, FALSE, ok)},
          pin \in {pins[i + 1]} :
           /\ lock' = r.lock
           /\ tmp' = r.tmp
           /\ IF r.exc = "CalledProcessError"
              THEN /\ all_pins' = Append(all_pins, ConflictLine(pin))
                   /\ bad_pins' = Append(bad_pins, pin)
              ELSE /\ all_pins' = Append(all_pins, PinLine(pin))
                   /\ bad_pins' = bad_pins
           /\ outcomes' = Append(outcomes, r.exc = "none")
           /\ ev' = Ev("pip_compile", TRUE, FALSE, r.resolved, r.exc, "try")
    /\ Resolve(ok)
    /\ i' = i + 1
    /\ pc' = "loop"
    /\ trace' = Append(trace, CompileStep(TRUE, FALSE))
    /\ UNCHANGED <<src, pinsLoc, current_requirements_txt, pins, errors, counters, prev>>

\* faulty variant: the final pins file lists every candidate as a pin
GP_WriteFinal_AllCandidates ==
    /\ pc = "loop"
    /\ i = Len(pins)
    /\ src' = [src EXCEPT !["pins"] = File(FinalPinsText(AsPinLines(pins)))]
    /\ pc' = "final"
    /\ ev' = Ev("write_final", FALSE, FALSE, FALSE, "none", "none")
    /\ trace' = Append(trace, "write_final")
    /\ UNCHANGED <<lock, pinsLoc, tmp, locals, counters, resolver, prev>>

\* lines 192-196: write the final pins file
GP_WriteFinal ==
    /\ pc = "loop"
    /\ i = Len(pins)
    /\ src' = [src EXCEPT !["pins"] = File(FinalPinsText(all_pins))]
    /\ pc' = "final"
    /\ ev' = Ev("write_final", FALSE, FALSE, FALSE, "none", "none")
    /\ trace' = Append(trace, "write_final")
    /\ UNCHANGED <<lock, pinsLoc, tmp, locals, counters, resolver, prev>>

\* faulty variant: the pins file is touched once more after the final rebuild
GP_FinalRebuild_ThenWrite(ok) ==
    /\ pc = "final"
    /\ \E r \in {pip_compile(src, lock, pinsLoc, tmp, "main", FALSE, TRUE, ok)} :
           /\ lock' = r.lock
           /\ tmp' = r.tmp
           /\ pc' = IF r.exc = "none" THEN "done" ELSE "raised"
           /\ errors' = IF r.exc = "none" /\ bad_pins # <<>>
                        THEN <<sorted(bad_pins)>> ELSE <<>>
           /\ ev' = Ev("pip_compile", FALSE, TRUE, r.resolved, r.exc, "final")
    /\ Resolve(ok)
    /\ trace' = Append(trace, CompileStep(FALSE, TRUE))
    /\ src' = [src EXCEPT !["pins"] = File(Text(src["pins"]) \o <<NL>>)]
    /\ UNCHANGED <<pinsLoc, current_requirements_txt, pins, i, all_pins, bad_pins,
                   outcomes, counters, prev>>

\* faulty variant: the last compile is made without rebuild=True
GP_FinalRebuild_NotRebuild(ok) ==
    /\ pc = "final"
    /\ \E r \in {pip_compile(src, lock, pinsLoc, tmp, "main", FALSE, FALSE, ok)} :
           /\ lock' = r.lock
           /\ tmp' = r.tmp
           /\ pc' = IF r.exc = "none" THEN "done" ELSE "raised"
           /\ errors' = IF r.exc = "none" /\ bad_pins # <<>>
                        THEN <<sorted(bad_pins)>> ELSE <<>>
           /\ ev' = Ev("pip_compile", FALSE, FALSE, r.resolved, r.exc, "final")
    /\ Resolve(ok)
    /\ trace' = Append(trace, CompileStep(FALSE, FALSE))
    /\ UNCHANGED <<src, pinsLoc, current_requirements_txt, pins, i, all_pins, bad_pins,
                   outcomes, counters, prev>>

\* lines 198-206: the final rebuild and the report
GP_FinalRebuild(ok) ==
    /\ pc = "final"
    /\ \E r \in {pip_compile(src, lock, pinsLoc, tmp, "main", FALSE, TRUE, ok)} :
           /\ lock' = r.lock
           /\ tmp' = r.tmp
           /\ pc' = IF r.exc = "none" THEN "done" ELSE "raised"
           /\ errors' = IF r.exc = "none" /\ bad_pins # <<>>
                        THEN <<sorted(bad_pins)>> ELSE <<>>
           /\ ev' = Ev("pip_compile", FALSE, TRUE, r.resolved, r.exc, "final")
    /\ Resolve(ok)
    /\ trace' = Append(trace, CompileStep(FALSE, TRUE))
    /\ UNCHANGED <<src, pinsLoc, current_requirements_txt, pins, i, all_pins, bad_pins,
                   outcomes, counters, prev>>

\* generate_pinfile has returned or raised: its locals are gone
GP_Return ==
    /\ pc \in {"done", "raised"}
    /\ pc' = "idle"
    /\ current_requirements_txt' = Unset
    /\ pins' = <<>>
    /\ i' = 0
    /\ all_pins' = <<>>
    /\ bad_pins' = <<>>
    /\ errors' = <<>>
    /\ outcomes' = <<>>
    /\ ev' = Ev("return", FALSE, FALSE, FALSE, "none", pc)
    /\ prev' = IF pc = "done" /\ resolver # <<>>
               THEN <<[pins_file |-> Text(src["pins"]), all_pins |-> all_pins,
                       bad_pins |-> bad_pins]>>
               ELSE <<>>
    /\ trace' = <<>>
    /\ UNCHANGED <<files, counters, resolver>>

Next ==
    \/ \E dry_run, rebuild, ok \in BOOLEAN : Compile(dry_run, rebuild, ok)
    \/ Check
    \/ \E t \in EditTexts(pinsLoc) : Edit("main", t)
    \/ \E t \in PinsTexts : Edit("pins", t)
    \/ GP_Clean
    \/ \E ok \in BOOLEAN : GP_Baseline(ok)
    \/ \E ps \in PinLists : GP_ResolvePins(ps)
    \/ GP_Include
    \/ GP_WritePartial
    \/ \E ok \in BOOLEAN : GP_TryPin(ok)
    \/ GP_WriteFinal
    \/ \E ok \in BOOLEAN : GP_FinalRebuild(ok)
    \/ GP_Return

Spec == Init /\ [][Next]_vars

\* the same program with read_requirements among the calls
NextWithRead ==
    \/ Next
    \/ \E recompile_check \in BOOLEAN : ReadRequirements("main", recompile_check)
\* the same, main.in being as well a file written with '\r\n' line ends
ForeignTexts == { <<"foo", CRLF, "bar">> }
InitWithRead ==
    /\ pinsLoc \in PinsLocs
    /\ \E m \in {Absent} \cup {File(t) : t \in MainTexts(pinsLoc) \cup ForeignTexts} :
            src = [main |-> m, pins |-> Absent]
    /\ lock \in {[main |-> Absent], [main |-> File(LegacyLock)]}
    /\ tmp = 0
    /\ pc = "idle"
    /\ NoLocals
    /\ ev = Ev("init", FALSE, FALSE, FALSE, "none", "none")
    /\ resolve_pins = <<>>
    /\ ops = 0
    /\ resolver = <<>>
    /\ prev = <<>>
    /\ trace = <<>>
SpecWithRead == InitWithRead /\ [][NextWithRead]_vars

\* the same program against a package index that does not drift
InitNoDrift == Files /\ resolver = <<{}>>
SpecNoDrift == InitNoDrift /\ [][Next]_vars

\* ------------------------------------------- reading and fingerprinting
\* Files as the functions that read them may find them: main with a comment,
\* an empty line, an include and a repeated line; includes of two files, of
\* a file that includes another, of a file in a subdirectory that includes
\* by a path of its own directory; a line moved from a file into the file
\* it includes; a last line '-r a' without line end, a being a file whose
\* text is '.bak' next to an empty file a.bak; a directive inside a comment;
\* files that are not there; files that include themselves or each other.
MainFiles ==
    { <<"foo", SP, HASH, SP, "c", NL, NL, DASH_R, SP, "a", NL, "bar", NL, "foo">>,
      <<DASH_R, SP, "a", NL, DASH_R, SP, SubDir, "b">>,
      <<DASH_R, SP, "a", NL, "x", NL>>,
      <<DASH_R, SP, "a", NL>>,
      <<DASH_R, SP, "a">>,
      <<"foo", SP, HASH, SP, DASH_R, SP, "nope">>,
      <<DASH_R, SP, "main">> }
AFiles ==
    { Absent,
      File(<<"y">>),
      File(<<"x", NL, "y">>),
      File(<<".bak">>),
      File(<<DASH_R, SP, SubDir, "b">>),
      File(<<DASH_R, SP, "main">>) }
BFiles ==
    { Absent,
      File(<<"q">>),
      File(<<DASH_R, SP, "c">>),
      File(<<HASH, SP, "nothing", NL, SP>>) }
FileSystems ==
    { [main |-> File(m), a |-> fa, b |-> fb, c |-> File(<<"z">>), d |-> File(<<"w">>),
       e |-> File(<<>>)] :
        m \in MainFiles, fa \in AFiles, fb \in BFiles }
\* the texts main and a are edited to by hand
MainEdits == { <<DASH_R, SP, "a", ".bak">>, <<DASH_R, SP, "a", NL, "x">> }
AEdits == { <<"y", NL, "y">>, <<DASH_R, SP, "c">> }

\* lock files with the same lines as body; main.txt with the fingerprint of
\* main.in or with none, the others with none
LocksOf(fs, fresh) ==
    [n \in DOMAIN fs |->
        IF Exists(fs[n])
        THEN File(LockFile(IF n = "main" /\ fresh
                           THEN {compute_requirements_in_hash(fs, "same", "main").hash}
                           ELSE {},
                           SplitLines(Text(fs[n]))))
        ELSE Absent]

InitFiles ==
    /\ pinsLoc = "same"
    /\ src \in FileSystems
    /\ \E fresh \in BOOLEAN :
           /\ fresh => compute_requirements_in_hash(src, "same", "main").ok
           /\ lock = LocksOf(src, fresh)
    /\ tmp = 0
    /\ pc = "idle"
    /\ NoLocals
    /\ ev = Ev("init", FALSE, FALSE, FALSE, "none", "none")
    /\ resolve_pins = <<>>
    /\ ops = 0
    /\ resolver = <<>>
    /\ prev = <<>>
    /\ trace = <<>>

\* compute_requirements_in_hash(name.in) called by the user
Fingerprint(name) ==
    /\ pc = "idle"
    /\ \E r \in {compute_requirements_in_hash(src, pinsLoc, name)} :
           ev' = Ev("hash", FALSE, FALSE, FALSE, r.exc, [name |-> name, hash |-> r.hash])
    /\ UNCHANGED <<files, pc, locals, counters, resolver, prev, trace>>

ReadNames == {"main", "a", "b"}

NextFiles ==
    \/ \E ok \in BOOLEAN : Compile(FALSE, FALSE, ok)
    \/ Check
    \/ \E t \in MainEdits : Edit("main", t)
    \/ \E t \in AEdits : Edit("a", t)
    \/ \E n \in ReadNames : Fingerprint(n)
    \/ \E n \in ReadNames, recompile_check \in BOOLEAN : ReadRequirements(n, recompile_check)

SpecFiles == InitFiles /\ [][NextFiles]_vars

\* ------------------------------------------- a directory of several sources
\* the directory of main.in with and without a MANIFEST.in; a.txt, c.txt, ...
\* as in InitFiles
ManifestFiles == {Absent, File(<<"include", SP, "x">>)}
InitSiblings ==
    /\ pinsLoc = "same"
    /\ \E fs \in FileSystems, mf \in ManifestFiles, fresh \in BOOLEAN :
           /\ fs["b"] \in {Absent, File(<<"q">>)}
           /\ fresh => compute_requirements_in_hash(fs, "same", "main").ok
           /\ src = [n \in DOMAIN fs \cup {"MANIFEST"} |->
                        IF n = "MANIFEST" THEN mf ELSE fs[n]]
           /\ lock = [n \in DOMAIN fs \cup {"MANIFEST"} |->
                        IF n = "MANIFEST" THEN Absent ELSE LocksOf(fs, fresh)[n]]
    /\ tmp = 0
    /\ pc = "idle"
    /\ NoLocals
    /\ ev = Ev("init", FALSE, FALSE, FALSE, "none", "none")
    /\ resolve_pins = <<>>
    /\ ops = 0
    /\ resolver = <<>>
    /\ prev = <<>>
    /\ trace = <<>>

\* maybe_recompile_requirements_file(name.txt) called by the user
MaybeRecompile(name, ok) ==
    /\ pc = "idle"
    /\ ops < MaxOps
    /\ \E in_files \in Listings(InFiles(src, pinsLoc, Parent(pinsLoc, name))) :
       \E r \in {maybe_recompile_requirements_file(src, lock, pinsLoc, tmp, name,
                                                    in_files, ok)} :
           /\ lock' = r.lock
           /\ tmp' = r.tmp
           /\ ev' = Ev("maybe_recompile", FALSE, FALSE, FALSE, r.exc,
                       [name |-> name, returned |-> r.result, checked |-> r.checked,
                        compiled |-> r.compiled])
    /\ ops' = ops + 1
    /\ prev' = <<>>
    /\ UNCHANGED <<src, pinsLoc, pc, locals, resolve_pins, resolver, trace>>

SiblingNames == {"main", "a"}

NextSiblings ==
    \/ \E n \in SiblingNames, ok \in BOOLEAN : MaybeRecompile(n, ok)
    \/ \E t \in MainEdits : Edit("main", t)

SpecSiblings == InitSiblings /\ [][NextSiblings]_vars

\* ================================================================== claims
\* the lines of a requirements text that are in force: those that are not
\* empty once the comment and the surrounding whitespace are taken away
RECURSIVE InForce(_)
InForce(lines) ==
    IF lines = <<>> THEN <<>>
    ELSE LET rest == InForce(Tail(lines))
             body == Strip(BeforeHash(lines[1]))
         IN  IF body = <<>> THEN rest ELSE <<body>> \o rest
ActiveLines(text) == InForce(SplitLines(text))

\* the first n candidates of ps whose dry run had the exit status `want`
RECURSIVE Decided(_, _, _, _)
Decided(ps, outs, n, want) ==
    IF n = 0 THEN <<>>
    ELSE Decided(ps, outs, n - 1, want)
         \o (IF outs[n] = want THEN <<ps[n]>> ELSE <<>>)
AsLines(ps) == [k \in 1..Len(ps) |-> PinLine(ps[k])]

\* C1: at every dry run for the candidate i+1 the pins file on disk holds,
\* in force, exactly the candidates accepted among the first i and the
\* candidate under test, and holds each rejected candidate j as the
\* commented line '## <pin>  # CONFLICT' (line j+1 of the file); a candidate
\* is kept as a pin iff its dry run succeeded and is listed as rejected iff
\* it failed.
C1_PinsFileAtEveryAttempt ==
    /\ pc \in {"loop", "try", "final", "done"} =>
        /\ Len(outcomes) = i /\ Len(all_pins) = i /\ i <= Len(pins)
        /\ \A j \in 1..i :
              all_pins[j] = IF outcomes[j] THEN PinLine(pins[j]) ELSE ConflictLine(pins[j])
        /\ bad_pins = Decided(pins, outcomes, i, FALSE)
    /\ pc = "try" =>
        /\ Exists(src["pins"])
        /\ ActiveLines(Text(src["pins"]))
              = AsLines(Decided(pins, outcomes, i, TRUE)) \o <<PinLine(pins[i + 1])>>
        /\ \A j \in 1..i :
              ~outcomes[j] => SplitLines(Text(src["pins"]))[j + 1] = ConflictLine(pins[j])

\* a dry run is about to be made after an earlier candidate was rejected
C1_Witness == pc = "try" /\ i = 1 /\ outcomes = <<FALSE>>

\* how often x occurs in the sequence s
RECURSIVE Count(_, _)
Count(x, s) ==
    IF s = <<>> THEN 0 ELSE (IF s[1] = x THEN 1 ELSE 0) + Count(x, Tail(s))

\* C2: when generate_pinfile completes, the pins file is the final banner
\* followed by one line per candidate in input order, the candidate itself
\* when it was accepted and '## <candidate>  # CONFLICT' when it was
\* rejected, and nothing else; the report of rejected pins is emitted iff a
\* candidate was rejected, and lists exactly the rejected candidates, sorted.
C2_FinalPinsFileAndReport ==
    pc = "done" =>
        /\ Len(outcomes) = Len(pins)
        /\ SplitLines(Text(src["pins"]))
              = <<FinalBanner>>
                \o [j \in 1..Len(pins) |-> IF outcomes[j] THEN PinLine(pins[j])
                                           ELSE ConflictLine(pins[j])]
        /\ (errors # <<>>) <=> (\E j \in 1..Len(pins) : ~outcomes[j])
        /\ errors # <<>> =>
              /\ \A c \in CandidateSet :
                    Count(c, errors[1]) = Count(c, Decided(pins, outcomes, Len(pins), FALSE))
              /\ \A k \in 1..(Len(errors[1]) - 1) :
                    PinRank(errors[1][k]) <= PinRank(errors[1][k + 1])

\* a run completed in which two candidates given in descending order were
\* both rejected
C2_Witness ==
    /\ pc = "done"
    /\ pins = <<Candidates[2], Candidates[1]>>
    /\ outcomes = <<FALSE, FALSE>>

\* C3: a failing dry run never makes generate_pinfile raise: it is recorded
\* as a rejection and the loop goes on to the next candidate; the final pins
\* file is written only when every candidate has been tested; the final
\* rebuild is then made, and the run completes unless that rebuild itself
\* fails.
C3_ConflictsNeverRaise ==
    [][ /\ pc = "try" => (pc' = "loop" /\ i' = i + 1 /\ pins' = pins)
        /\ pc = "loop" => pc' \in {"try", "final"}
        /\ pc' = "final" => (i' = Len(pins') /\ Len(outcomes') = Len(pins'))
        /\ pc = "final" =>
              /\ ev'.op = "pip_compile" /\ ev'.rebuild /\ ~ev'.dry_run
              /\ pc' = IF ev'.exc = "none" THEN "done" ELSE "raised" ]_vars

\* a run completed although every one of its two candidates was rejected
C3_Witness == pc = "done" /\ outcomes = <<FALSE, FALSE>> /\ Len(pins) = 2

\* the files compute_requirements_in_hash reads for the file `name`, at the
\* nesting depth d
RECURSIVE Visited(_, _, _)
Visited(fs, name, d) ==
    IF d > MaxDepth \/ name \notin DOMAIN fs \/ ~Exists(fs[name]) THEN {}
    ELSE LET incs == FindIncludes(read_text(fs[name]), 1)
         IN  {name} \cup UNION { Visited(fs, ResolvePath(pinsLoc, name,
                                                         IncludeFileName(incs[k])), d + 1) :
                                    k \in 1..Len(incs) }

\* what check_requirements_needs_recompile(main) answers in this state
needsRecompile == check_requirements_needs_recompile(src, lock, pinsLoc, "main")

\* a step that is a pip_compile which wrote the lock file
Compiled(e) == e.op = "pip_compile" /\ ~e.dry_run /\ e.exc = "none"

\* the main source includes the pins file, as the hashing sees it
IncludesPins(text) ==
    \E k \in 1..Len(FindIncludes(text, 1)) :
        ResolvePath(pinsLoc, "main", IncludeFileName(FindIncludes(text, 1)[k])) = "pins"

\* C4, as far as it holds: right after a successful pip_compile that is not
\* a dry run, check_requirements_needs_recompile answers False; when main.in
\* or the pins file it includes is then given another of the texts of
\* EditTexts and PinsTexts it no longer answers False (it answers True, or
\* fails on an include that does not exist), and its answer stays the same
\* over every call that writes no file (a check, a dry run, a compile whose
\* resolver fails).
C4_FreshnessRoundTrip ==
    [][ LET before == check_requirements_needs_recompile(src, lock, pinsLoc, "main")
            after == check_requirements_needs_recompile(src', lock', pinsLoc, "main")
        IN  /\ Compiled(ev') => after = "False"
            /\ ( /\ ev'.op = "edit"
                 /\ before = "False"
                 /\ Exists(src'["main"])
                 /\ ev'.result = "main" \/ IncludesPins(Text(src'["main"])) )
               => after # "False"
            /\ ( \/ ev'.op = "check"
                 \/ (ev'.op = "pip_compile" /\ ~Compiled(ev')) )
               => after = before ]_vars

\* the included pins file was edited after main was compiled, and the lock
\* file is reported stale
C4_Witness ==
    /\ ev.op = "edit" /\ ev.result = "pins"
    /\ Exists(lock["main"]) /\ Text(lock["main"]).hashes # {}
    /\ IncludesPins(Text(src["main"]))
    /\ needsRecompile = "True"

\* C4 (as claimed): when main.in, or a file it includes, is given another
\* content right after a successful pip_compile,
\* check_requirements_needs_recompile no longer answers False
C4_EditMakesStale ==
    [][ (Compiled(ev) /\ ev'.op = "edit" /\ ev'.result \in Visited(src, "main", 1))
        => check_requirements_needs_recompile(src', lock', pinsLoc, "main") # "False" ]_vars

\* C5: check_requirements_needs_recompile answers False when main.in does
\* not exist, True when main.in exists and main.txt does not, and otherwise
\* (every included file being there) True iff the fingerprint of main.in does
\* not occur in main.txt; it changes no file.
C5_NeedsRecompileCases ==
    /\ [](ev.op = "check" =>
            /\ ~Exists(src["main"]) => ev.result = "False"
            /\ (Exists(src["main"]) /\ ~Exists(lock["main"])) => ev.result = "True"
            /\ (Exists(src["main"]) /\ Exists(lock["main"])) =>
                  LET fp == compute_requirements_in_hash(src, pinsLoc, "main")
                  IN  IF fp.ok
                      THEN ev.result = IF fp.hash \in Text(lock["main"]).hashes
                                       THEN "False" ELSE "True"
                      ELSE ev.result = "FileNotFoundError")
    /\ [][ev'.op = "check" => UNCHANGED <<src, lock, tmp>>]_vars

\* the check was made with a lock file but no source, and answered False
C5_Witness ==
    ev.op = "check" /\ ev.result = "False" /\ ~Exists(src["main"]) /\ Exists(lock["main"])

\* C6 (as claimed): once a pip_compile has returned or raised, no temporary
\* output file is left
C6_NoTemporaryFileLeft == tmp = 0

\* C7: when the resolver fails in a pip_compile that is not a dry run, the
\* call raises CalledProcessError and main.txt is as it was before the call.
C7_FailedCompileKeepsLock ==
    [][ (ev'.op = "pip_compile" /\ ~ev'.dry_run /\ ~ev'.resolved)
        => (ev'.exc = "CalledProcessError" /\ lock' = lock /\ src' = src) ]_vars

\* a compile failed and the lock file that was there is still there
C7_Witness ==
    /\ ev.op = "pip_compile" /\ ~ev.dry_run /\ ~ev.resolved
    /\ Exists(src["main"])
    /\ lock["main"] = File(LegacyLock)

\* C8: a pip_compile with dry_run set changes neither main.txt nor main.in
\* nor the pins file, whether the resolver succeeds or fails, with rebuild
\* set or not.
C8_DryRunWritesNothing ==
    [][ (ev'.op = "pip_compile" /\ ev'.dry_run) => (lock' = lock /\ src' = src) ]_vars

\* a dry run with rebuild set succeeded on a source whose lock file is stale
C8_Witness ==
    /\ ev.op = "pip_compile" /\ ev.dry_run /\ ev.rebuild /\ ev.resolved
    /\ needsRecompile = "True"

\* C9: generate_pinfile captures main.txt before the baseline rebuild; once
\* resolve_pins has returned, main.txt has the captured content again and
\* keeps it through the inclusion step and every dry run, until the final
\* rebuild.
C9_LockRestoredDuringDiscovery ==
    /\ [](pc \in {"include", "loop", "try", "final"}
            => lock["main"] = File(current_requirements_txt))
    /\ [][ /\ (pc = "idle" /\ pc' = "baseline")
              => (Exists(lock["main"]) /\ current_requirements_txt' = Text(lock["main"]))
           /\ (pc \in {"baseline", "resolve", "include", "loop", "try", "final"})
              => current_requirements_txt' = current_requirements_txt ]_vars

\* the final pins file is written, after an accepted and a rejected
\* candidate, and main.txt is the legacy lock file the run started with
C9_Witness ==
    /\ pc = "final"
    /\ outcomes = <<TRUE, FALSE>>
    /\ lock["main"] = File(LegacyLock)

\* the lines of the main source that are a directive including the pins file
PinsDirectives(text) ==
    LET lines == SplitLines(text)
    IN  {k \in 1..Len(lines) :
            LET line == Strip(BeforeHash(lines[k]))
            IN  /\ Len(line) >= 2 /\ line[1] = DASH_R /\ line[2] = SP
                /\ ResolvePath(pinsLoc, "main", RemoveDashR(line)) = "pins"}

\* C10 (as claimed): when generate_pinfile has completed, the main source
\* includes the pins file by exactly one directive
C10_ExactlyOneDirective ==
    pc = "done" => Cardinality(PinsDirectives(Text(src["main"]))) = 1

\* C11: against a package index that does not drift and with resolve_pins
\* returning the same candidates, a run of generate_pinfile started on the
\* files the previous completed run left does not raise, and completes with
\* the same accepted and rejected candidates and the same pins file.
C11_IdempotentRerun ==
    prev # <<>> =>
        /\ pc # "raised"
        /\ pc = "done" =>
              /\ all_pins = prev[1].all_pins
              /\ bad_pins = prev[1].bad_pins
              /\ Text(src["pins"]) = prev[1].pins_file

\* a second run completed after a first one that accepted a candidate and
\* rejected another
C11_Witness ==
    /\ pc = "done" /\ prev # <<>> /\ resolver # <<>>
    /\ outcomes = <<TRUE, FALSE>>
    /\ pins = <<Candidates[1], Candidates[2]>>

\* C12: read_requirements with recompile_check on a stale lock file raises
\* ValueError and returns nothing; a read runs no pip_compile and changes no
\* file; the check is made on the file read only: with that file fresh, or
\* with recompile_check off, the result is the list read, whatever the state
\* of the files it includes.
C12_StaleReadRaises ==
    [][ ev'.op = "read" =>
          LET name == ev'.result.name
              stale == check_requirements_needs_recompile(src, lock, pinsLoc, name)
              plain == read_requirements_lines(TxtFiles(lock), pinsLoc, name)
          IN  /\ UNCHANGED <<src, lock, tmp, resolver>>
              /\ (ev'.result.recompile_check /\ stale = "True")
                    => (ev'.exc = "ValueError" /\ ev'.result.data = <<>>)
              /\ (~ev'.result.recompile_check \/ stale = "False")
                    => (ev'.exc = plain.exc /\ ev'.result.data = plain.data) ]_vars

\* main.txt is fresh and was read with recompile_check through an include
\* of a.txt, which is stale
C12_Witness ==
    /\ ev.op = "read" /\ ev.exc = "none"
    /\ ev.result.name = "main" /\ ev.result.recompile_check
    /\ ev.result.data = << <<"y">> >>
    /\ "a" \in DOMAIN src
    /\ check_requirements_needs_recompile(src, lock, pinsLoc, "a") = "True"

\* the specifiers of the file `name` of txts: its lines in force, in order,
\* each line '-r <path>' replaced by the specifiers of the file <path>
\* denotes from the directory of `name`
RECURSIVE Flattened(_, _)
RECURSIVE FlattenedLines(_, _, _)
Flattened(txts, name) == FlattenedLines(txts, name, ActiveLines(Text(txts[name])))
FlattenedLines(txts, name, lines) ==
    IF lines = <<>> THEN <<>>
    ELSE LET line == lines[1]
         IN  (IF Len(line) >= 2 /\ line[1] = DASH_R /\ line[2] = SP
              THEN Flattened(txts,
                       CHOOSE n \in DOMAIN txts :
                           FilePath(pinsLoc, n)
                             = Parent(pinsLoc, name) \o SubSeq(line, 3, Len(line)))
              ELSE <<line>>)
             \o FlattenedLines(txts, name, Tail(lines))

\* C13: what read_requirements returns is, in file order, every line that is
\* not empty once its comment and the surrounding whitespace are taken away,
\* each line '-r <path>' replaced in place by the specifiers read from the
\* file the path denotes from the directory of the including file; empty and
\* comment-only lines give nothing, and a specifier that occurs twice is
\* returned twice.
C13_ReadFlattens ==
    (ev.op = "read" /\ ev.exc = "none")
        => ev.result.data = Flattened(TxtFiles(lock), ev.result.name)

\* main.txt was read through a.txt and sub/b.txt, which includes by a path
\* of its own directory
C13_Witness ==
    /\ ev.op = "read" /\ ev.exc = "none" /\ ev.result.name = "main"
    /\ ev.result.data = << <<"y">>, <<"z">> >>

\* main.txt was read with a comment, an empty line, an include between two
\* lines, and a line that occurs twice
C13_WitnessDuplicates ==
    /\ ev.op = "read" /\ ev.exc = "none" /\ ev.result.name = "main"
    /\ ev.result.data = << <<"foo">>, <<"x">>, <<"y">>, <<"bar">>, <<"foo">> >>

\* C14 (as claimed): the fingerprint of main.in differs whenever the content
\* of main.in or of a file it includes, directly or not, has changed
C14_FingerprintDistinguishes ==
    [][ ev'.op = "edit" =>
          LET h1 == compute_requirements_in_hash(src, pinsLoc, "main")
              h2 == compute_requirements_in_hash(src', pinsLoc, "main")
          IN  (h1.ok /\ h2.ok /\ ev'.result \in Visited(src, "main", 1))
                => h1.hash # h2.hash ]_vars

\* the steps of a run of generate_pinfile over n candidates
RECURSIVE PinSteps(_)
PinSteps(n) == IF n = 0 THEN <<>> ELSE <<"write_partial", "dry_run">> \o PinSteps(n - 1)
RunSteps(n) ==
    <<"clean", "capture", "rebuild", "resolve_pins", "restore", "include">>
    \o PinSteps(n) \o <<"write_final", "rebuild">>
IsPrefix(s, t) == Len(s) <= Len(t) /\ s = SubSeq(t, 1, Len(s))
Invocations(s) == Count("rebuild", s) + Count("dry_run", s) + Count("compile", s)

\* C15: a run of generate_pinfile goes through its steps in this order: the
\* pins file is cleaned, one rebuild is made, resolve_pins is called (only
\* when that rebuild succeeded) and the lock file restored after it, then
\* for each candidate in turn the pins file is written and one dry run made,
\* then the final pins file is written and one rebuild made: 2 + the number
\* of candidates calls of pip-compile in a run that completes, and a run
\* that raised makes no further step.
C15_InvocationOrder ==
    /\ [](/\ IsPrefix(trace, RunSteps(Len(pins)))
          /\ pc = "idle" => trace = <<>>
          /\ "resolve_pins" \notin {trace[k] : k \in 1..Len(trace)} => pins = <<>>
          /\ pc = "try" => trace[Len(trace)] = "write_partial"
          /\ pc = "done" =>
                /\ trace = RunSteps(Len(pins))
                /\ Invocations(trace) = 2 + Len(pins))
    /\ [][ /\ pc = "raised" => (pc' = "idle" /\ trace' = <<>>)
           /\ (ev'.op = "pip_compile" /\ ev'.result = "baseline" /\ ev'.exc # "none")
                 => pc' = "raised"
           /\ (ev'.op = "pip_compile" /\ pc # "idle")
                 => (Len(trace') = Len(trace) + 1 /\ tmp' = tmp + 1) ]_vars

\* a run over two candidates has completed
C15_Witness == pc = "done" /\ Len(pins) = 2 /\ trace = RunSteps(2) /\ outcomes = <<FALSE, TRUE>>

\* C16: maybe_recompile_requirements_file(X) checks every other *.in file of
\* X's directory except MANIFEST.in and writes none of their files; it
\* compiles X iff X needs a recompile, returns True iff it has compiled, and
\* when it has returned X does not need a recompile.
C16_MaybeRecompile ==
    [][ ev'.op = "maybe_recompile" =>
          LET X == ev'.result.name
              siblings == InFiles(src, pinsLoc, Parent(pinsLoc, X)) \ {X, "MANIFEST"}
          IN  /\ {ev'.result.checked[k] : k \in 1..Len(ev'.result.checked)} = siblings
              /\ src' = src
              /\ \A n \in DOMAIN lock : n # X => lock'[n] = lock[n]
              /\ ev'.result.compiled
                    <=> check_requirements_needs_recompile(src, lock, pinsLoc, X) = "True"
              /\ ev'.exc = "none" =>
                    /\ ev'.result.returned = "True" <=> ev'.result.compiled
                    /\ check_requirements_needs_recompile(src', lock', pinsLoc, X) = "False"
      ]_vars

\* C16, as far as it holds: the same, for the calls in which no check of a
\* sibling raises; when one raises, X is neither checked nor compiled.
C16_UnlessSiblingRaises ==
    [][ ev'.op = "maybe_recompile" =>
          LET X == ev'.result.name
              siblings == InFiles(src, pinsLoc, Parent(pinsLoc, X)) \ {X, "MANIFEST"}
              checked == {ev'.result.checked[k] : k \in 1..Len(ev'.result.checked)}
              raising == {n \in siblings :
                             check_requirements_needs_recompile(src, lock, pinsLoc, n)
                                 \notin {"True", "False"}}
          IN  /\ checked \subseteq siblings
              /\ src' = src
              /\ \A n \in DOMAIN lock : n # X => lock'[n] = lock[n]
              /\ raising # {} => (~ev'.result.compiled /\ ev'.exc # "none" /\ lock' = lock)
              /\ raising = {} =>
                    /\ checked = siblings
                    /\ ev'.result.compiled
                          <=> check_requirements_needs_recompile(src, lock, pinsLoc, X) = "True"
              /\ ev'.exc = "none" =>
                    /\ ev'.result.returned = "True" <=> ev'.result.compiled
                    /\ check_requirements_needs_recompile(src', lock', pinsLoc, X) = "False"
      ]_vars

\* main.txt has been compiled by the call, a.in and a MANIFEST.in lying
\* beside main.in
C16_Witness ==
    /\ ev.op = "maybe_recompile" /\ ev.exc = "none" /\ ev.result.name = "main"
    /\ ev.result.compiled /\ ev.result.checked # <<>>
    /\ Exists(src["MANIFEST"])

\* the inclusion graph of a set of files.  The files a file includes, in
\* order: those of its directive lines, a line being a directive when '-r '
\* begins what is left of it without its comment ("line"); or those the
\* fingerprint's pattern finds in the text ("pattern")
IsFile(fls, n) == n \in DOMAIN fls /\ Exists(fls[n])
IncludesOf(fls, n, notion) ==
    IF notion = "pattern"
    THEN LET incs == FindIncludes(Text(fls[n]), 1)
         IN  [k \in 1..Len(incs) |-> ResolvePath(pinsLoc, n, IncludeFileName(incs[k]))]
    ELSE LET dirs == SelectSeq(ActiveLines(Text(fls[n])),
                               LAMBDA l : Len(l) >= 2 /\ l[1] = DASH_R /\ l[2] = SP)
         IN  [k \in 1..Len(dirs) |-> ResolvePath(pinsLoc, n, SubSeq(dirs[k], 3, Len(dirs[k])))]
Children(fls, n, notion) ==
    IF IsFile(fls, n)
    THEN {IncludesOf(fls, n, notion)[k] : k \in 1..Len(IncludesOf(fls, n, notion))}
    ELSE {}
RECURSIVE ReachIn(_, _, _, _)
ReachIn(fls, S, k, notion) ==
    IF k = 0 THEN S
    ELSE ReachIn(fls, S \cup UNION {Children(fls, n, notion) : n \in S}, k - 1, notion)
Reach(fls, S, notion) == ReachIn(fls, S, Cardinality(FileNames), notion)
SomeMissing(fls, name, notion) == \E n \in Reach(fls, {name}, notion) : ~IsFile(fls, n)
SomeCycle(fls, name, notion) ==
    \E n \in Reach(fls, {name}, notion) : n \in Reach(fls, Children(fls, n, notion), notion)
\* the contents met on the inclusion paths from a file, the file first, then
\* what it includes, in order: one visit per path
RECURSIVE PathContents(_, _, _)
RECURSIVE PathContentsOf(_, _, _, _)
PathContents(fls, name, notion) ==
    Text(fls[name]) \o PathContentsOf(fls, IncludesOf(fls, name, notion), 1, notion)
PathContentsOf(fls, incs, k, notion) ==
    IF k > Len(incs) THEN <<>>
    ELSE PathContents(fls, incs[k], notion) \o PathContentsOf(fls, incs, k + 1, notion)

Terminates(fls, notion) ==
    LET name == ev.result.name
    IN  /\ (~SomeCycle(fls, name, notion) /\ ~SomeMissing(fls, name, notion)) =>
              /\ ev.exc = "none"
              /\ ev.op = "hash" => ev.result.hash = Sha256(PathContents(fls, name, notion))
        /\ (~SomeCycle(fls, name, notion) /\ SomeMissing(fls, name, notion)) =>
              ev.exc = "FileNotFoundError"
        /\ SomeCycle(fls, name, notion) =>
              ev.exc \in {"FileNotFoundError", "RecursionError"}

\* C17: compute_requirements_in_hash and read_requirements return when the
\* inclusion graph under the file has no cycle and all its files exist (the
\* fingerprint taking the content of a file once for each inclusion path to
\* it), raise FileNotFoundError when it has no cycle and a file of it is
\* missing, and return nothing when it has a cycle.
C17_Termination ==
    /\ ev.op = "hash" => Terminates(src, "line")
    /\ (ev.op = "read" /\ ~ev.result.recompile_check) => Terminates(TxtFiles(lock), "line")

\* C17, as far as it holds: the same, the files the fingerprint includes
\* being those its pattern finds, in a comment or not.
C17_TerminationByPattern ==
    /\ ev.op = "hash" => Terminates(src, "pattern")
    /\ (ev.op = "read" /\ ~ev.result.recompile_check) => Terminates(TxtFiles(lock), "line")

\* the fingerprint of main.in has been taken, which includes sub/b.in
\* directly and through a.in
C17_Witness ==
    /\ ev.op = "hash" /\ ev.exc = "none" /\ ev.result.name = "main"
    /\ Text(src["main"]) = <<DASH_R, SP, "a", NL, DASH_R, SP, SubDir, "b">>
    /\ Text(src["a"]) = <<DASH_R, SP, SubDir, "b">>
    /\ IsFile(src, "b")

\* the files as they were at the call of pip_compile whose set of
\* constraints the final rebuild meets again: the dry run of the candidate
\* accepted last, or the baseline rebuild when none was accepted
LastAccepted == {k \in 1..Len(outcomes) : outcomes[k] /\ \A j \in k + 1..Len(outcomes) : ~outcomes[j]}
FilesAtLastAccepted ==
    IF LastAccepted = {} THEN [src EXCEPT !["pins"] = File(Cleaned)]
    ELSE LET k == CHOOSE k \in LastAccepted : TRUE
         IN  [src EXCEPT !["pins"] =
                  File(PartialPinsText(SubSeq(all_pins, 1, k - 1), pins[k]))]

\* C18: the constraints in force at the final rebuild of generate_pinfile
\* are those of a call of pip_compile that succeeded earlier in the run (the
\* dry run of the candidate accepted last, the baseline rebuild when none
\* was accepted), so against an index without drift the final rebuild does
\* not fail.
C18_FinalSetAccepted ==
    /\ [](pc = "final" =>
            /\ ActiveSet(src, pinsLoc) = ActiveSet(FilesAtLastAccepted, pinsLoc)
            /\ resolver # <<>> => <<ActiveSet(src, pinsLoc), TRUE>> \in resolver[1])
    /\ [][ (pc = "final" /\ resolver # <<>> /\ ev'.op = "pip_compile")
             => (ev'.exc = "none" /\ pc' = "done") ]_vars

\* the final rebuild has succeeded after a run whose last candidate was
\* rejected and whose first was accepted
C18_Witness ==
    /\ pc = "done" /\ resolver # <<>> /\ outcomes = <<TRUE, FALSE>>
    /\ ev.op = "pip_compile" /\ ev.result = "final"

\* C19: when generate_pinfile has completed, main.txt is fresh: the check
\* answers False, the fingerprint in main.txt being the one of main.in as it
\* is now, directive included, and of the final pins file, and no file is
\* written between the final rebuild and the return.
C19_FreshWhenDone ==
    /\ [](pc = "done" =>
            /\ needsRecompile = "False"
            /\ Text(lock["main"]).hashes
                  = {compute_requirements_in_hash(src, pinsLoc, "main").hash}
            /\ "pins" \in Visited(src, "main", 1)
            /\ Text(src["pins"]) = FinalPinsText(all_pins))
    /\ [][ pc = "done" => (src' = src /\ lock' = lock) ]_vars

\* a run over two candidates has completed, the pins file lying in a
\* subdirectory
C19_Witness ==
    /\ pc = "done" /\ Len(all_pins) = 2 /\ pinsLoc = "sub"
    /\ ev.op = "pip_compile" /\ ev.result = "final" /\ ev.exc = "none"

\* C20: pip_compile, check_requirements_needs_recompile, read_requirements
\* and the dry runs leave main.in as it is; generate_pinfile changes it at
\* most once in a run, at the inclusion step, and then the new content is
\* the old one followed by one directive line.
C20_MainSourceOnlyAppended ==
    [][ (src'["main"] # src["main"] /\ ev'.op # "edit") =>
          /\ ev'.op = "include"
          /\ Count("include", trace) = 0
          /\ Exists(src["main"])
          /\ Text(src'["main"]) = Text(src["main"]) \o AddedDirective(pinsLoc)
      ]_vars

\* C20, as far as it holds: the same, the new content being the old one as
\* read, its line ends given as '\n', followed by the directive line.
C20_AppendedToTextRead ==
    [][ (src'["main"] # src["main"] /\ ev'.op # "edit") =>
          /\ ev'.op = "include"
          /\ Count("include", trace) = 0
          /\ Exists(src["main"])
          /\ Text(src'["main"]) = read_text(src["main"]) \o AddedDirective(pinsLoc)
      ]_vars

\* the directive has been appended to a main.in that held none
C20_Witness ==
    /\ ev.op = "include" /\ ev.exc = "none"
    /\ Text(src["main"]) = <<"foo">> \o AddedDirective(pinsLoc)

====
